---- MODULE Spec2Model ----
(***************************************************************************)
(* A model of wasm-encrypt-canvas (src/src/lib.rs).                        *)
(*                                                                         *)
(* A Rust String is modelled as the sequence of its Unicode scalar values. *)
(* The codec (encrypt / decrypt) is computed as the code computes it:      *)
(* UTF-8 encode, XOR every byte with KEY, lossy UTF-8 decode.              *)
(*                                                                         *)
(* Three specifications share the variables:                               *)
(*   SpecCodec  the pure functions encrypt and decrypt on bounded strings; *)
(*   Spec       encrypt_canvas, statement by statement, called repeatedly  *)
(*              on one document;                                           *)
(*   SpecApi    every sequence of User<T> operations that the types of     *)
(*              lib.rs accept, on one document.                            *)
(***************************************************************************)
EXTENDS Integers, Sequences, FiniteSets, TLC

VARIABLES
    body,       \* document.body's children, in tree order
    nreq,       \* number of requests (viewer lifecycles) started so far
    requests,   \* history: requests[n] is the render_info of request n as received
    pc,         \* position inside encrypt_canvas, "idle" between calls
    info,       \* the local render_info of encrypt_canvas
    token,      \* the local user_token of encrypt_canvas
    user,       \* the current User<T> value, NoUser when there is none
    result,     \* what the last finished call returned: "none", "Ok" or "Err"
    trace,      \* history: the steps the current request executed, with their outcome
    hist,       \* history (SpecApi): provenance of the current User value
    lastOp,     \* history: the last rendering operation called, and what it saw
    orig,       \* SpecCodec: the string the codec started from
    text,       \* SpecCodec: the current string
    ops         \* SpecCodec: the codec functions applied so far

vars == <<body, nreq, requests, pc, info, token, user, result, trace, hist,
          lastOp, orig, text, ops>>

docVars == <<body, nreq, requests, pc, info, token, user, result, trace, hist, lastOp>>
codecVars == <<orig, text, ops>>

(***************************************************************************)
(* Bounds of the model.                                                    *)
(***************************************************************************)
MaxLen == 2         \* longest string handed to the codec
MaxOps == 2         \* codec functions applied in a row
MaxFragments == 2   \* longest render_info
MaxRequests == 2    \* calls of encrypt_canvas (or viewer lifecycles) on one document
MaxLevel == 1       \* largest vip_level handed to User::new / set_vip_level
MaxBody == 4        \* SpecApi: rendering stops once the body holds this many elements

(***************************************************************************)
(* Codec.                                                                  *)
(***************************************************************************)
KEY == 123

REPLACEMENT == 65533    \* U+FFFD, what from_utf8_lossy writes for an invalid sequence

RECURSIVE XorBits(_, _, _)
XorBits(a, b, n) ==
    IF n = 0 THEN 0
    ELSE ((a + b) % 2) + 2 * XorBits(a \div 2, b \div 2, n - 1)

\* u8 ^ u8
Xor8(a, b) == XorBits(a, b, 8)

\* char::encode_utf8, as String::into_bytes exposes it
EncodeChar(c) ==
    IF c < 128 THEN <<c>>
    ELSE IF c < 2048 THEN <<192 + (c \div 64), 128 + (c % 64)>>
    ELSE IF c < 65536 THEN
        <<224 + (c \div 4096), 128 + ((c \div 64) % 64), 128 + (c % 64)>>
    ELSE <<240 + (c \div 262144), 128 + ((c \div 4096) % 64),
           128 + ((c \div 64) % 64), 128 + (c % 64)>>

RECURSIVE into_bytes(_)
into_bytes(s) ==
    IF s = <<>> THEN <<>> ELSE EncodeChar(Head(s)) \o into_bytes(Tail(s))

\* the byte at position i, 0 past the end (safe_get of core::str::lossy)
SafeGet(b, i) == IF i <= Len(b) THEN b[i] ELSE 0

IsCont(x) == x >= 128 /\ x <= 191

\* core::str::utf8_char_width
Utf8CharWidth(x) ==
    IF x < 128 THEN 1
    ELSE IF x >= 194 /\ x <= 223 THEN 2
    ELSE IF x >= 224 /\ x <= 239 THEN 3
    ELSE IF x >= 240 /\ x <= 244 THEN 4
    ELSE 0

\* the second byte of a three-byte sequence that the decoder accepts
Second3Ok(b0, b1) ==
    \/ b0 = 224 /\ b1 >= 160 /\ b1 <= 191
    \/ b0 >= 225 /\ b0 <= 236 /\ IsCont(b1)
    \/ b0 = 237 /\ b1 >= 128 /\ b1 <= 159
    \/ b0 >= 238 /\ b0 <= 239 /\ IsCont(b1)

\* the second byte of a four-byte sequence that the decoder accepts
Second4Ok(b0, b1) ==
    \/ b0 = 240 /\ b1 >= 144 /\ b1 <= 191
    \/ b0 >= 241 /\ b0 <= 243 /\ IsCont(b1)
    \/ b0 = 244 /\ b1 >= 128 /\ b1 <= 143

\* The first chunk of a non-empty byte string: the scalar value decoded (or
\* REPLACEMENT for a maximal invalid prefix) and the number of bytes it takes.
FirstChunk(b) ==
    LET b0 == b[1]
        b1 == SafeGet(b, 2)
        b2 == SafeGet(b, 3)
        b3 == SafeGet(b, 4)
        w  == Utf8CharWidth(b0)
    IN  IF w = 1 THEN [cp |-> b0, n |-> 1]
        ELSE IF w = 2 THEN
            IF IsCont(b1) THEN [cp |-> (b0 - 192) * 64 + (b1 - 128), n |-> 2]
            ELSE [cp |-> REPLACEMENT, n |-> 1]
        ELSE IF w = 3 THEN
            IF ~Second3Ok(b0, b1) THEN [cp |-> REPLACEMENT, n |-> 1]
            ELSE IF ~IsCont(b2) THEN [cp |-> REPLACEMENT, n |-> 2]
            ELSE [cp |-> (b0 - 224) * 4096 + (b1 - 128) * 64 + (b2 - 128), n |-> 3]
        ELSE IF w = 4 THEN
            IF ~Second4Ok(b0, b1) THEN [cp |-> REPLACEMENT, n |-> 1]
            ELSE IF ~IsCont(b2) THEN [cp |-> REPLACEMENT, n |-> 2]
            ELSE IF ~IsCont(b3) THEN [cp |-> REPLACEMENT, n |-> 3]
            ELSE [cp |-> (b0 - 240) * 262144 + (b1 - 128) * 4096
                         + (b2 - 128) * 64 + (b3 - 128), n |-> 4]
        ELSE [cp |-> REPLACEMENT, n |-> 1]

RECURSIVE from_utf8_lossy(_)
from_utf8_lossy(b) ==
    IF b = <<>> THEN <<>>
    ELSE LET c == FirstChunk(b)
         IN  <<c.cp>> \o from_utf8_lossy(SubSeq(b, c.n + 1, Len(b)))

XorBytes(b) == [i \in 1..Len(b) |-> Xor8(b[i], KEY)]

encrypt(str) == from_utf8_lossy(XorBytes(into_bytes(str)))

\* a decrypt that adds the key instead of xoring it
decryptAdd(str) ==
    LET b == into_bytes(str)
    IN  from_utf8_lossy([i \in 1..Len(b) |-> (b[i] + KEY) % 256])

decrypt(str) == from_utf8_lossy(XorBytes(into_bytes(str)))

(***************************************************************************)
(* Data model.                                                             *)
(***************************************************************************)
\* struct RenderString { cipher, position: Position {x, y}, font_style: FontStyle {size} }
RenderString(cipher, x, y, size) ==
    [cipher |-> cipher, position |-> [x |-> x, y |-> y], font_style |-> [size |-> size]]

\* static CANVAS_ATTRIBUTES
CANVAS_ATTRIBUTES == [id |-> "encrypt-canvas", width |-> 100, height |-> 100]

\* the value fetch_vip_level stores
FetchedVipLevel == 3

NoUser == [plan |-> "none", user_token |-> "", vip_level |-> 0, info |-> <<>>]

\* User::<T>::new; plan is the marker type T
User_new(plan, user_token, vip_level, render_info) ==
    [plan |-> plan, user_token |-> user_token, vip_level |-> vip_level,
     info |-> render_info]

get_vip_level(u) == u.vip_level

set_vip_level(u, vip_level) == [u EXCEPT !.vip_level = vip_level]

fetch_vip_level(u) == set_vip_level(u, FetchedVipLevel)

\* impl From<User<FreePlan>> for User<VipPlan>
From(u) == User_new("VipPlan", u.user_token, u.vip_level, u.info)

\* a decrypt pass that decrypts every fragment a second time
decrypt_infoTwice(render_info) ==
    [i \in 1..Len(render_info) |->
        [render_info[i] EXCEPT !.cipher = decrypt(decrypt(@))]]

decrypt_info(render_info) ==
    [i \in 1..Len(render_info) |-> [render_info[i] EXCEPT !.cipher = decrypt(@)]]

(***************************************************************************)
(* The document.  An element is a record; req, the request that appended   *)
(* it, is a history field.  The items of a canvas are what was drawn on    *)
(* it, those of an img the picture its data URL holds, those of a div its  *)
(* children.                                                               *)
(***************************************************************************)
Elem(tag, id, txt, items, req) ==
    [tag |-> tag, id |-> id, text |-> txt, items |-> items, req |-> req]

\* format!("{}px", n)
Px(n) == <<n, "px">>

\* format!("{}px serif", n)
PxSerif(n) == <<n, "px serif">>

\* the captions of the three views
CanvasCaption == "canvas that cannot be copied"
ImgCaption == "image that cannot be copied"
DivCaption == "VIP only: ordinary elements that can be copied"

get_paragraph(txt, req) == Elem("p", "", txt, <<>>, req)

\* document.get_element_by_id: the index in tree order of the first element
\* with that id, 0 when there is none
get_element_by_id(doc, id) ==
    IF \E i \in 1..Len(doc) : doc[i].id = id
    THEN CHOOSE i \in 1..Len(doc) :
            /\ doc[i].id = id
            /\ \A j \in 1..(i - 1) : doc[j].id # id
    ELSE 0

\* what the loop of render_as_canvas draws: set_font, then fill_text
CanvasItems(render_info) ==
    [i \in 1..Len(render_info) |->
        [text |-> render_info[i].cipher,
         x |-> render_info[i].position.x,
         y |-> render_info[i].position.y,
         font |-> PxSerif(render_info[i].font_style.size)]]

\* the children the loop of render_as_div builds
DivItems(render_info) ==
    [i \in 1..Len(render_info) |->
        [inner_text |-> render_info[i].cipher,
         position |-> "absolute",
         left |-> Px(render_info[i].position.x),
         top |-> Px(render_info[i].position.y),
         font_size |-> Px(render_info[i].font_style.size)]]

\* The places where render_as_canvas can return early through `?`.
CanvasFailPoints(u) ==
    {"none", "create_element", "get_context", "get_paragraph", "append_p",
     "append_canvas"} \cup (IF Len(u.info) > 0 THEN {"fill_text"} ELSE {})

\* render_as_canvas: the document afterwards and whether it returned Ok
render_as_canvas(u, doc, req, fail) ==
    LET canvas == Elem("canvas", CANVAS_ATTRIBUTES.id, "", CanvasItems(u.info), req)
        p == get_paragraph(CanvasCaption, req)
    IN  IF fail \in {"create_element", "get_context", "fill_text", "get_paragraph",
                     "append_p"}
        THEN [body |-> doc, ok |-> FALSE]
        ELSE IF fail = "append_canvas"
        THEN [body |-> Append(doc, p), ok |-> FALSE]
        ELSE [body |-> doc \o <<p, canvas>>, ok |-> TRUE]

\* The places where render_as_img can return early through `?` once the
\* lookup found an element.
ImgFailPoints ==
    {"none", "to_data_url", "create_element", "get_paragraph", "append_p", "append_img"}

\* render_as_img
render_as_img(u, doc, req, fail) ==
    LET at == get_element_by_id(doc, CANVAS_ATTRIBUTES.id)
    IN  IF at = 0 THEN [body |-> doc, ok |-> FALSE]
        ELSE IF doc[at].tag # "canvas" THEN [body |-> doc, ok |-> FALSE]
        ELSE
            LET data_url == doc[at].items
                img == Elem("img", "", "", data_url, req)
                p == get_paragraph(ImgCaption, req)
            IN  IF fail \in {"to_data_url", "create_element", "get_paragraph", "append_p"}
                THEN [body |-> doc, ok |-> FALSE]
                ELSE IF fail = "append_img"
                THEN [body |-> Append(doc, p), ok |-> FALSE]
                ELSE [body |-> doc \o <<p, img>>, ok |-> TRUE]

\* The places where render_as_div can return early through `?`.
DivFailPoints(u) ==
    {"none", "create_element", "set_property", "get_paragraph", "append_p",
     "append_div"} \cup (IF Len(u.info) > 0 THEN {"append_child"} ELSE {})

\* render_as_div
render_as_div(u, doc, req, fail) ==
    LET div_warp == Elem("div", "", "", DivItems(u.info), req)
        p == get_paragraph(DivCaption, req)
    IN  IF fail \in {"create_element", "set_property", "append_child", "get_paragraph",
                     "append_p"}
        THEN [body |-> doc, ok |-> FALSE]
        ELSE IF fail = "append_div"
        THEN [body |-> Append(doc, p), ok |-> FALSE]
        ELSE [body |-> doc \o <<p, div_warp>>, ok |-> TRUE]

(***************************************************************************)
(* Inputs.                                                                 *)
(***************************************************************************)
\* the plaintext of fragment k: "hi", "ii", "ji", ...
Plain(k) == <<103 + k, 105>>

\* fragment k as the host page sends it: its cipher, one line lower than the
\* fragment before it
Fragment(k) == RenderString(encrypt(Plain(k)), 10, 20 + 30 * (k - 1), 14)

Reverse(q) == [i \in 1..Len(q) |-> q[Len(q) + 1 - i]]

\* fragments i..j, in order
Run(i, j) == [k \in 1..(j + 1 - i) |-> Fragment(i + k - 1)]

\* the render_info values of Params: the empty one and every run of consecutive
\* fragments out of MaxFragments, forwards and backwards
Inputs ==
    {<<>>} \cup
    UNION {{Run(i, j), Reverse(Run(i, j))} :
              i \in 1..MaxFragments, j \in 1..MaxFragments}

\* the user_token values of Params
Tokens == {"t1"}

NoHist == [viaFrom |-> FALSE, fetched |-> FALSE, canvasOk |-> FALSE]

NoOp == [op |-> "none", ok |-> TRUE, plan |-> "none", level |-> 0,
         viaFrom |-> FALSE, canvasOk |-> FALSE, appended |-> 0]

\* the record of one call of a rendering operation on the current user
OpRecord(op, r) ==
    [op |-> op, ok |-> r.ok, plan |-> user.plan, level |-> user.vip_level,
     viaFrom |-> hist.viaFrom, canvasOk |-> hist.canvasOk,
     appended |-> Len(r.body) - Len(body)]

DocInit ==
    /\ body = <<>>
    /\ nreq = 0
    /\ requests = <<>>
    /\ pc = "idle"
    /\ info = <<>>
    /\ token = ""
    /\ user = NoUser
    /\ result = "none"
    /\ trace = <<>>
    /\ hist = NoHist
    /\ lastOp = NoOp

CodecIdle == orig = <<>> /\ text = <<>> /\ ops = <<>>

(***************************************************************************)
(* encrypt_canvas, one action per statement.                               *)
(***************************************************************************)
\* a call whose Result is dropped instead of propagated
QuestionIgnored(ok, next) == next

\* the `?` after a rendering call: go on when it returned Ok, return otherwise
Question(ok, next) == IF ok THEN next ELSE "idle"

Logged(op, ok) == Append(trace, [op |-> op, ok |-> ok])

\* the host page calls encrypt_canvas(params); params.into_serde() succeeded
Call ==
    /\ pc = "idle"
    /\ nreq < MaxRequests
    /\ \E ri \in Inputs, tok \in Tokens :
        /\ info' = ri
        /\ token' = tok
        /\ requests' = Append(requests, ri)
    /\ nreq' = nreq + 1
    /\ pc' = "decrypt_info"
    /\ user' = NoUser
    /\ result' = "none"
    /\ trace' = <<>>
    /\ hist' = NoHist
    /\ UNCHANGED <<body, lastOp>>
    /\ UNCHANGED codecVars

\* decrypt_info(&mut render_info)
DecryptInfo ==
    /\ pc = "decrypt_info"
    /\ info' = decrypt_info(info)
    /\ trace' = Logged("decrypt_info", TRUE)
    /\ pc' = "new"
    /\ UNCHANGED <<body, nreq, requests, token, user, result, hist, lastOp>>
    /\ UNCHANGED codecVars

\* let mut user = User::<FreePlan>::new(user_token, 0, render_info)
NewUser ==
    /\ pc = "new"
    /\ user' = User_new("FreePlan", token, 0, info)
    /\ trace' = Logged("new", TRUE)
    /\ pc' = "render_as_canvas"
    /\ UNCHANGED <<body, nreq, requests, info, token, result, hist, lastOp>>
    /\ UNCHANGED codecVars

\* user.render_as_canvas()?
RenderAsCanvas ==
    /\ pc = "render_as_canvas"
    /\ \E fail \in CanvasFailPoints(user) :
        LET r == render_as_canvas(user, body, nreq, fail)
        IN  /\ body' = r.body
            /\ lastOp' = OpRecord("render_as_canvas", r)
            /\ hist' = [hist EXCEPT !.canvasOk = @ \/ r.ok]
            /\ trace' = Logged("render_as_canvas", r.ok)
            /\ pc' = Question(r.ok, "render_as_img")
            /\ result' = IF r.ok THEN result ELSE "Err"
    /\ UNCHANGED <<nreq, requests, info, token, user>>
    /\ UNCHANGED codecVars

\* user.render_as_img()?
RenderAsImg ==
    /\ pc = "render_as_img"
    /\ \E fail \in ImgFailPoints :
        LET r == render_as_img(user, body, nreq, fail)
        IN  /\ body' = r.body
            /\ lastOp' = OpRecord("render_as_img", r)
            /\ trace' = Logged("render_as_img", r.ok)
            /\ pc' = Question(r.ok, "fetch_vip_level")
            /\ result' = IF r.ok THEN result ELSE "Err"
    /\ UNCHANGED <<nreq, requests, info, token, user, hist>>
    /\ UNCHANGED codecVars

\* user.fetch_vip_level()
FetchVipLevel ==
    /\ pc = "fetch_vip_level"
    /\ user' = fetch_vip_level(user)
    /\ hist' = [hist EXCEPT !.fetched = TRUE]
    /\ trace' = Logged("fetch_vip_level", TRUE)
    /\ pc' = "check"
    /\ UNCHANGED <<body, nreq, requests, info, token, result, lastOp>>
    /\ UNCHANGED codecVars

\* if user.get_vip_level() > 0 { ... } Ok(())
CheckVipLevel ==
    /\ pc = "check"
    /\ IF get_vip_level(user) > 0
       THEN pc' = "into" /\ result' = result
       ELSE pc' = "idle" /\ result' = "Ok"
    /\ UNCHANGED <<body, nreq, requests, info, token, user, trace, hist, lastOp>>
    /\ UNCHANGED codecVars

\* let vip_user: User<VipPlan> = user.into()
Into ==
    /\ pc = "into"
    /\ user' = From(user)
    /\ hist' = [hist EXCEPT !.viaFrom = TRUE]
    /\ trace' = Logged("into", TRUE)
    /\ pc' = "render_as_div"
    /\ UNCHANGED <<body, nreq, requests, info, token, result, lastOp>>
    /\ UNCHANGED codecVars

\* vip_user.render_as_div()?; Ok(())
RenderAsDiv ==
    /\ pc = "render_as_div"
    /\ \E fail \in DivFailPoints(user) :
        LET r == render_as_div(user, body, nreq, fail)
        IN  /\ body' = r.body
            /\ lastOp' = OpRecord("render_as_div", r)
            /\ trace' = Logged("render_as_div", r.ok)
            /\ pc' = Question(r.ok, "idle")
            /\ result' = IF r.ok THEN "Ok" ELSE "Err"
    /\ UNCHANGED <<nreq, requests, info, token, user, hist>>
    /\ UNCHANGED codecVars

Init == DocInit /\ CodecIdle

Next ==
    \/ Call
    \/ DecryptInfo
    \/ NewUser
    \/ RenderAsCanvas
    \/ RenderAsImg
    \/ FetchVipLevel
    \/ CheckVipLevel
    \/ Into
    \/ RenderAsDiv

Spec == Init /\ [][Next]_vars

(***************************************************************************)
(* SpecApi: the operations of User<T> in any order the types accept.       *)
(* new and set_vip_level are defined for every T, Free is implemented for  *)
(* every User<T>, Vip for User<VipPlan> only, and From takes a             *)
(* User<FreePlan>.  A Result may be dropped, so a failed rendering call    *)
(* does not end the sequence.  Each new starts a request of its own.       *)
(***************************************************************************)
Plans == {"FreePlan", "VipPlan"}

\* the info values handed to User::new, already decrypted
ApiInputs == {<<>>, decrypt_info(Run(1, 2))}

ApiUnchanged == UNCHANGED <<pc, info, token, result, trace>> /\ UNCHANGED codecVars

\* User::<T>::new(user_token, vip_level, info)
ApiNew ==
    /\ nreq < MaxRequests
    /\ \E plan \in Plans, tok \in Tokens, lvl \in 0..MaxLevel, ri \in ApiInputs :
        /\ user' = User_new(plan, tok, lvl, ri)
        /\ requests' = Append(requests, ri)
    /\ nreq' = nreq + 1
    /\ hist' = NoHist
    /\ UNCHANGED <<body, lastOp>>
    /\ ApiUnchanged

\* user.set_vip_level(vip_level)
ApiSetVipLevel ==
    /\ user.plan \in Plans
    /\ \E lvl \in 0..MaxLevel : user' = set_vip_level(user, lvl)
    /\ UNCHANGED <<body, nreq, requests, hist, lastOp>>
    /\ ApiUnchanged

\* user.fetch_vip_level()
ApiFetchVipLevel ==
    /\ user.plan \in Plans
    /\ user' = fetch_vip_level(user)
    /\ hist' = [hist EXCEPT !.fetched = TRUE]
    /\ UNCHANGED <<body, nreq, requests, lastOp>>
    /\ ApiUnchanged

\* let vip_user: User<VipPlan> = user.into()
ApiInto ==
    /\ user.plan = "FreePlan"
    /\ user' = From(user)
    /\ hist' = [hist EXCEPT !.viaFrom = TRUE]
    /\ UNCHANGED <<body, nreq, requests, lastOp>>
    /\ ApiUnchanged

\* user.render_as_canvas()
ApiRenderAsCanvas ==
    /\ user.plan \in Plans
    /\ Len(body) + 2 <= MaxBody
    /\ \E fail \in CanvasFailPoints(user) :
        LET r == render_as_canvas(user, body, nreq, fail)
        IN  /\ body' = r.body
            /\ lastOp' = OpRecord("render_as_canvas", r)
            /\ hist' = [hist EXCEPT !.canvasOk = @ \/ r.ok]
    /\ UNCHANGED <<nreq, requests, user>>
    /\ ApiUnchanged

\* user.render_as_img()
ApiRenderAsImg ==
    /\ user.plan \in Plans
    /\ Len(body) + 2 <= MaxBody
    /\ \E fail \in ImgFailPoints :
        LET r == render_as_img(user, body, nreq, fail)
        IN  /\ body' = r.body
            /\ lastOp' = OpRecord("render_as_img", r)
    /\ UNCHANGED <<nreq, requests, user, hist>>
    /\ ApiUnchanged

\* user.render_as_div(), which only User<VipPlan> has
ApiRenderAsDiv ==
    /\ user.plan = "VipPlan"
    /\ Len(body) + 2 <= MaxBody
    /\ \E fail \in DivFailPoints(user) :
        LET r == render_as_div(user, body, nreq, fail)
        IN  /\ body' = r.body
            /\ lastOp' = OpRecord("render_as_div", r)
    /\ UNCHANGED <<nreq, requests, user, hist>>
    /\ ApiUnchanged

NextApi ==
    \/ ApiNew
    \/ ApiSetVipLevel
    \/ ApiFetchVipLevel
    \/ ApiInto
    \/ ApiRenderAsCanvas
    \/ ApiRenderAsImg
    \/ ApiRenderAsDiv

SpecApi == Init /\ [][NextApi]_vars

(***************************************************************************)
(* SpecCodec: encrypt and decrypt applied to bounded strings.              *)
(***************************************************************************)
\* ' ', 'b', '{' (which is KEY), '~', U+00E9, U+4E2D, U+FFFD, U+1F600
SampleChars == {32, 98, 123, 126, 233, 20013, 65533, 128512}

Ascii == 0..127

\* the strings of at most n characters out of S
RECURSIVE SeqsUpTo(_, _)
SeqsUpTo(S, n) ==
    IF n = 0 THEN {<<>>}
    ELSE LET shorter == SeqsUpTo(S, n - 1)
         IN  shorter \cup {Append(q, x) : q \in shorter, x \in S}

PrintableAscii == 32..126

\* every one-character ASCII string, and every string of up to MaxLen sample
\* characters
CodecInputs == {<<c>> : c \in Ascii} \cup SeqsUpTo(SampleChars, MaxLen)

IsPrintableAscii(s) == \A i \in 1..Len(s) : s[i] \in PrintableAscii

CodecInit ==
    /\ DocInit
    /\ orig \in CodecInputs
    /\ text = orig
    /\ ops = <<>>

Encrypt ==
    /\ Len(ops) < MaxOps
    /\ text' = encrypt(text)
    /\ ops' = Append(ops, "encrypt")
    /\ UNCHANGED orig
    /\ UNCHANGED docVars

Decrypt ==
    /\ Len(ops) < MaxOps
    /\ text' = decrypt(text)
    /\ ops' = Append(ops, "decrypt")
    /\ UNCHANGED orig
    /\ UNCHANGED docVars

NextCodec == Encrypt \/ Decrypt

SpecCodec == CodecInit /\ [][NextCodec]_vars

(***************************************************************************)
(* Properties.                                                             *)
(***************************************************************************)

\* C1 (SpecApi): render_as_div executes only on a viewer obtained from the
\* FreePlan-to-VipPlan conversion, and only with a tier > 0.
C1_CapabilitySoundness ==
    lastOp.op = "render_as_div" => (lastOp.viaFrom /\ lastOp.level > 0)

\* C3 (SpecApi): render_as_img called in a request in which render_as_canvas has
\* not completed returns an error and appends nothing to the document.
C3_MissingSurface ==
    (lastOp.op = "render_as_img" /\ ~lastOp.canvasOk)
        => (~lastOp.ok /\ lastOp.appended = 0)

\* C4 (SpecCodec): decrypt(encrypt(s)) = s for every printable-ASCII string s.
C4_RoundTripPrintableAscii ==
    (ops = <<"encrypt", "decrypt">> /\ IsPrintableAscii(orig)) => text = orig

\* encrypt then decrypt has been applied to the printable string "b~"
C4_Witness ==
    /\ ops = <<"encrypt", "decrypt">>
    /\ orig = <<98, 126>>
    /\ text = orig

\* C5 (SpecApi): every viewer tagged VipPlan has vip_level > 0 and was obtained
\* by converting a FreePlan viewer; nothing constructs it directly and no
\* operation brings its tier to 0.
C5_ElevatedInvariant ==
    user.plan = "VipPlan" => (user.vip_level > 0 /\ hist.viaFrom)

\* C6 (Spec): when encrypt_canvas returns an error, nothing the request appended
\* remains in the document.
C6_NoPartialOutput ==
    result = "Err" => \A i \in 1..Len(body) : body[i].req # nreq

\* C7 (SpecCodec): decrypt(encrypt(s)) = s and encrypt(decrypt(s)) = s for every
\* string s, non-ASCII characters included.
C7_MutualInverse ==
    ops \in {<<"encrypt", "decrypt">>, <<"decrypt", "encrypt">>} => text = orig

StepOrder ==
    <<"decrypt_info", "new", "render_as_canvas", "render_as_img", "fetch_vip_level",
      "into", "render_as_div">>

\* C8 (Spec): the steps of encrypt_canvas run in the order decrypt, construct the
\* FreePlan viewer with tier 0, render_as_canvas, render_as_img, fetch_vip_level,
\* conversion, render_as_div; each starts only after the previous one succeeded.
C8_PipelineOrdering ==
    /\ Len(trace) <= Len(StepOrder)
    /\ \A i \in 1..Len(trace) :
        /\ trace[i].op = StepOrder[i]
        /\ i < Len(trace) => trace[i].ok
    /\ pc # "idle" => \A i \in 1..Len(trace) : trace[i].ok
    /\ pc = "render_as_canvas" => (user.plan = "FreePlan" /\ user.vip_level = 0)
    /\ pc = "render_as_img" => hist.canvasOk
    /\ lastOp.op = "render_as_img" => lastOp.canvasOk
    /\ pc = "render_as_div" => hist.fetched

\* a call of encrypt_canvas ran all seven steps and returned Ok
C8_Witness ==
    /\ pc = "idle"
    /\ result = "Ok"
    /\ Len(trace) = Len(StepOrder)
    /\ trace[Len(trace)].op = "render_as_div"

\* what a canvas must hold for the render_info ri of Params: per fragment, in
\* input order, decrypt of the cipher and the position and font size received
ExpectedCanvasItems ==
    [ri \in Inputs |->
        [k \in 1..Len(ri) |->
            [text |-> decrypt(ri[k].cipher),
             x |-> ri[k].position.x,
             y |-> ri[k].position.y,
             font |-> <<ri[k].font_style.size, "px serif">>]]]

\* what a div wrapper must hold for the render_info ri of Params
ExpectedDivItems ==
    [ri \in Inputs |->
        [k \in 1..Len(ri) |->
            [inner_text |-> decrypt(ri[k].cipher),
             position |-> "absolute",
             left |-> <<ri[k].position.x, "px">>,
             top |-> <<ri[k].position.y, "px">>,
             font_size |-> <<ri[k].font_style.size, "px">>]]]

\* C9 (Spec): every canvas and every div wrapper in the document holds one item
\* per fragment of its request, in input order, with decrypt applied once to the
\* input cipher and the input position and font size.
C9_RenderedContent ==
    \A i \in 1..Len(body) :
        /\ body[i].tag = "canvas" =>
            body[i].items = ExpectedCanvasItems[requests[body[i].req]]
        /\ body[i].tag = "div" =>
            body[i].items = ExpectedDivItems[requests[body[i].req]]

\* a div wrapper with the two fragments "ii" then "hi" is in the document, after
\* the canvas of the same request
C9_Witness ==
    \E i, j \in 1..Len(body) :
        /\ i < j
        /\ body[i].tag = "canvas"
        /\ body[j].tag = "div"
        /\ body[i].req = body[j].req
        /\ Len(body[j].items) = 2
        /\ body[j].items[1].inner_text = Plain(2)
        /\ body[j].items[2].inner_text = Plain(1)
        /\ body[i].items[1].text = Plain(2)

\* C10 (Spec): every img in the document shows the canvas of its own request,
\* that is the decrypted fragments of that request and not those of another.
C10_ImageOfOwnCanvas ==
    \A i \in 1..Len(body) :
        body[i].tag = "img" =>
            body[i].items = CanvasItems(decrypt_info(requests[body[i].req]))

====
